---- MODULE Spec2Model ----
(***************************************************************************)
(* tomlenv: the built-in Environment hierarchy (src/env/environment.rs),   *)
(* the Environments<S, T> map (src/env/environments.rs) instantiated as    *)
(* Environments<Environment, RuntimeEnv>, and the Error type (src/error).  *)
(***************************************************************************)
EXTENDS Integers, Sequences, FiniteSets, TLC

VARIABLES
    key,      \* Option<Environment>: the key value the caller holds
    envs,     \* Option<BTreeMap<Environment, RuntimeEnv>>: the Environments instance
    environ,  \* the process environment read by std::env::var
    result,   \* the last call: its operation, its argument and what it returned
    stderr,   \* the lines the library has written to the standard error stream
    threads   \* the concurrent readers of one shared instance: where each one is
              \* in current_from and what it holds

vars == <<key, envs, environ, result, stderr, threads>>

(***************************************************************************)
(* Bounds                                                                  *)
(***************************************************************************)
\* greatest number of [envs.<name>] tables in an enumerated document
MaxTables == 2

\* number of threads that share one Environments instance
MaxReaders == 2

(***************************************************************************)
(* enum Environment and enum ErrCode                                       *)
(***************************************************************************)
\* the variants in declaration order
Variants == <<"Prod", "Stage", "Test", "Dev", "Local">>

Environment == {Variants[i] : i \in 1..Len(Variants)}

ErrCode == {"Client", "Env", "Framework", "HttpClient", "Io", "Parse",
            "Server", "Unauthorized", "Unknown"}

\* impl From<ErrCode> for &str
ErrCodeStr(code) ==
    CASE code = "Client" -> "client"
      [] code = "Env" -> "env"
      [] code = "Framework" -> "framework"
      [] code = "HttpClient" -> "httpclient"
      [] code = "Io" -> "io"
      [] code = "Parse" -> "parse"
      [] code = "Server" -> "server"
      [] code = "Unauthorized" -> "unauthorized"
      [] code = "Unknown" -> "unknown"

(***************************************************************************)
(* struct Error                                                            *)
(***************************************************************************)
\* Option<ErrSource>::None
NoSource == [kind |-> "None", inner |-> ""]

\* Some(ErrSource::<kind>(inner))
SomeSource(kind, inner) == [kind |-> kind, inner |-> inner]

\* Error::new that forgets the source it is given
ErrorNew_NoSource(code, reason, source) ==
    [code |-> code,
     reason |-> reason,
     description |-> ErrCodeStr(code) \o ": " \o reason,
     source |-> NoSource]

\* Error::new
ErrorNew(code, reason, source) ==
    [code |-> code,
     reason |-> reason,
     description |-> ErrCodeStr(code) \o ": " \o reason,
     source |-> source]

\* Error::invalid_runtime_environment
invalid_runtime_environment(env) ==
    ErrorNew("Env", "invalid runtime environment '" \o env \o "'", NoSource)

\* Error::invalid_current_environment
invalid_current_environment(var) ==
    ErrorNew("Env", "invalid current environment '" \o var \o "'", NoSource)

\* dep_error!(std::env::VarError, ErrSource::Var, ErrCode::Env, ...)
FromVarError(inner) ==
    ErrorNew("Env", "There was an error processing your enviroment",
             SomeSource("Var", inner))

\* dep_error!(std::io::Error, ErrSource::Io, ErrCode::Io, ...)
FromIoError(inner) ==
    ErrorNew("Io", "There was an error processing your request",
             SomeSource("Io", inner))

\* the toml::de::Error conversion with the code of the io::Error conversion
FromTomlDeError_IoCode(inner) ==
    ErrorNew("Io", "There was an error deserializing TOML",
             SomeSource("TomlDe", inner))

\* dep_error!(toml::de::Error, ErrSource::TomlDe, ErrCode::Parse, ...)
FromTomlDeError(inner) ==
    ErrorNew("Parse", "There was an error deserializing TOML",
             SomeSource("TomlDe", inner))

(***************************************************************************)
(* Result<T, E>                                                            *)
(***************************************************************************)
Ok(v) == [ok |-> TRUE, val |-> v]

Err(e) == [ok |-> FALSE, err |-> e]

(***************************************************************************)
(* impl Display, TryFrom<&str>, TryFrom<String>, Ord for Environment       *)
(***************************************************************************)
\* to_string with the "dev" arm a copy of the "test" arm
to_string_DevAsTest(k) ==
    CASE k = "Prod" -> "prod"
      [] k = "Stage" -> "stage"
      [] k = "Test" -> "test"
      [] k = "Dev" -> "test"
      [] k = "Local" -> "local"

\* impl fmt::Display for Environment (to_string)
to_string(k) ==
    CASE k = "Prod" -> "prod"
      [] k = "Stage" -> "stage"
      [] k = "Test" -> "test"
      [] k = "Dev" -> "dev"
      [] k = "Local" -> "local"

\* try_from without the "local" arm
try_from_str_NoLocal(env) ==
    CASE env = "prod" -> Ok("Prod")
      [] env = "stage" -> Ok("Stage")
      [] env = "test" -> Ok("Test")
      [] env = "dev" -> Ok("Dev")
      [] OTHER -> Err(invalid_runtime_environment(env))

\* try_from that also takes the capitalised spelling of prod
try_from_str_AnyCase(env) ==
    CASE env = "prod" \/ env = "Prod" -> Ok("Prod")
      [] env = "stage" -> Ok("Stage")
      [] env = "test" -> Ok("Test")
      [] env = "dev" -> Ok("Dev")
      [] env = "local" -> Ok("Local")
      [] OTHER -> Err(invalid_runtime_environment(env))

\* impl TryFrom<&str> for Environment
try_from_str(env) ==
    CASE env = "prod" -> Ok("Prod")
      [] env = "stage" -> Ok("Stage")
      [] env = "test" -> Ok("Test")
      [] env = "dev" -> Ok("Dev")
      [] env = "local" -> Ok("Local")
      [] OTHER -> Err(invalid_runtime_environment(env))

\* a TryFrom<String> that matches on env.to_lowercase(): "Prod" is taken as prod
try_from_string_Lowercased(env) ==
    CASE env = "prod" \/ env = "Prod" -> Ok("Prod")
      [] env = "stage" -> Ok("Stage")
      [] env = "test" -> Ok("Test")
      [] env = "dev" -> Ok("Dev")
      [] env = "local" -> Ok("Local")
      [] OTHER -> Err(invalid_runtime_environment(env))

\* impl TryFrom<String> for Environment
try_from_string(env) ==
    CASE env = "prod" -> Ok("Prod")
      [] env = "stage" -> Ok("Stage")
      [] env = "test" -> Ok("Test")
      [] env = "dev" -> Ok("Dev")
      [] env = "local" -> Ok("Local")
      [] OTHER -> Err(invalid_runtime_environment(env))

\* the discriminant the derived Ord compares: the position in the declaration
Discriminant(k) == CHOOSE i \in 1..Len(Variants) : Variants[i] = k

\* the position of a variant's rendered string in alphabetical order
AlphabeticalRank(k) ==
    CASE k = "Dev" -> 1
      [] k = "Local" -> 2
      [] k = "Prod" -> 3
      [] k = "Stage" -> 4
      [] k = "Test" -> 5

\* cmp that orders the variants by their rendered strings
cmp_ByName(a, b) ==
    IF AlphabeticalRank(a) < AlphabeticalRank(b) THEN "Less"
    ELSE IF AlphabeticalRank(a) = AlphabeticalRank(b) THEN "Equal"
    ELSE "Greater"

\* #[derive(Ord, PartialOrd)] on enum Environment
cmp(a, b) ==
    IF Discriminant(a) < Discriminant(b) THEN "Less"
    ELSE IF Discriminant(a) = Discriminant(b) THEN "Equal"
    ELSE "Greater"

(***************************************************************************)
(* The payload of the tests: struct RuntimeEnv { name, key: Option }       *)
(***************************************************************************)
\* Option<String>::None, and a field a TOML table does not give
Absent == "<absent>"

\* RuntimeEnv { name, key }
RuntimeEnv(name, k) == [name |-> name, key |-> k]

\* one [envs.<name>] table of a document: the header's name and the fields
Table(name, body) == [name |-> name, body |-> body]

\* a document: whether it is well-formed TOML, whether it has the top-level
\* envs table, and the [envs.<name>] tables in the order they appear
Document(syntax_ok, wrapper, tables) ==
    [syntax_ok |-> syntax_ok, wrapper |-> wrapper, tables |-> tables]

\* const EXPECTED_TOML_STR
EXPECTED_TOML_STR ==
    Document(TRUE, TRUE,
        << Table("prod", RuntimeEnv("Production", "abcd-123-efg-45")),
           Table("stage", RuntimeEnv("Stage", Absent)),
           Table("test", RuntimeEnv("Test", Absent)),
           Table("dev", RuntimeEnv("Development", Absent)),
           Table("local", RuntimeEnv("Local", Absent)) >>)

(***************************************************************************)
(* Deserialization: toml::from_str::<Environments<Environment, RuntimeEnv>>*)
(***************************************************************************)
\* EnvironmentVisitor::visit_str, reached from Environment::deserialize:
\* TryFrom::try_from(value).map_err(de::Error::custom)
deserialize_key(value) ==
    LET r == try_from_str(value)
    IN  IF r.ok THEN r ELSE Err("custom: " \o r.err.description)

\* RuntimeEnv with #[serde(default)] on name: a table without name is accepted
deserialize_value_DefaultName(body) ==
    IF body.name = Absent THEN Ok(RuntimeEnv("", body.key)) ELSE Ok(body)

\* #[derive(Deserialize)] on RuntimeEnv: name is required, key is optional
deserialize_value(body) ==
    IF body.name = Absent THEN Err("missing field name") ELSE Ok(body)

\* the first table, in document order, whose key or value is refused (0: none)
FirstRefused(tables) ==
    LET bad == {i \in 1..Len(tables) :
                   \/ ~deserialize_key(tables[i].name).ok
                   \/ ~deserialize_value(tables[i].body).ok}
    IN  IF bad = {} THEN 0 ELSE CHOOSE i \in bad : \A j \in bad : i <= j

\* the BTreeMap<Environment, RuntimeEnv> collected from accepted tables
CollectMap(tables) ==
    [k \in {deserialize_key(tables[i].name).val : i \in 1..Len(tables)} |->
        LET i == CHOOSE j \in 1..Len(tables) :
                     deserialize_key(tables[j].name).val = k
        IN  deserialize_value(tables[i].body).val]

\* from_str that leaves out the tables it refuses and keeps the others
toml_from_str_SkipRefused(doc) ==
    IF ~doc.syntax_ok THEN Err("syntax")
    ELSE IF ~doc.wrapper THEN Err("missing field envs")
    ELSE Ok(CollectMap(SelectSeq(doc.tables,
                LAMBDA tb : /\ deserialize_key(tb.name).ok
                            /\ deserialize_value(tb.body).ok)))

\* #[derive(De)] on struct Environments { envs }, driven by toml::from_str
toml_from_str(doc) ==
    IF ~doc.syntax_ok THEN Err("syntax")
    ELSE IF ~doc.wrapper THEN Err("missing field envs")
    ELSE LET i == FirstRefused(doc.tables)
         IN  IF i = 0 THEN Ok(CollectMap(doc.tables))
             ELSE LET kr == deserialize_key(doc.tables[i].name)
                  IN  IF ~kr.ok THEN Err(kr.err)
                      ELSE Err(deserialize_value(doc.tables[i].body).err)

\* Environments::from_reader
from_reader(reader) ==
    IF ~reader.readable THEN Err(FromIoError("read_to_string"))
    ELSE LET r == toml_from_str(reader.doc)
         IN  IF r.ok THEN Ok(r.val) ELSE Err(FromTomlDeError(r.err))

(***************************************************************************)
(* Serialization: toml::to_string(&Environments<Environment, RuntimeEnv>)  *)
(***************************************************************************)
\* dep_error!(toml::ser::Error, ErrSource::TomlSer, ErrCode::Parse, ...)
FromTomlSerError(inner) ==
    ErrorNew("Parse", "There was an error serializing TOML",
             SomeSource("TomlSer", inner))

\* what #[derive(Serialize)] would write for a key: the name of the variant
serialize_key_VariantName(k) == k

\* impl Serialize for Environment: serialize_str(&self.to_string())
serialize_key(k) == to_string(k)

\* #[derive(Serialize)] on RuntimeEnv: name, and key unless it is None
serialize_value(v) == RuntimeEnv(v.name, IF v.key = Absent THEN Absent ELSE v.key)

\* the keys greatest first
RECURSIVE btree_iter_Descending(_)
btree_iter_Descending(keys) ==
    IF keys = {} THEN <<>>
    ELSE LET f == CHOOSE x \in keys : \A y \in keys : cmp(x, y) # "Less"
         IN  <<f>> \o btree_iter_Descending(keys \ {f})

\* BTreeMap iteration: the keys in ascending order of Ord
RECURSIVE btree_iter(_)
btree_iter(keys) ==
    IF keys = {} THEN <<>>
    ELSE LET f == CHOOSE x \in keys : \A y \in keys : cmp(x, y) # "Greater"
         IN  <<f>> \o btree_iter(keys \ {f})

\* #[derive(Ser)] on struct Environments { envs }, driven by toml::to_string:
\* one [envs.<key>] table per entry, in the order the map iterates
toml_to_string(m) ==
    LET keys == btree_iter(DOMAIN m)
    IN  Ok(Document(TRUE, TRUE,
               [i \in 1..Len(keys) |->
                   Table(serialize_key(keys[i]), serialize_value(m[keys[i]]))]))

\* test::try_encode: Ok(toml::to_string(environments)?)
try_encode(m) ==
    LET r == toml_to_string(m)
    IN  IF r.ok THEN Ok(r.val) ELSE Err(FromTomlSerError(r.err))

(***************************************************************************)
(* Files: Path, File::open, Environments::from_path                        *)
(***************************************************************************)
\* PathBuf::from(s): the components of the path (the empty path has none)
PathFrom(s) == IF s = "" THEN <<>> ELSE <<s>>

\* Path::display: the components separated by "/"
RECURSIVE PathDisplay(_)
PathDisplay(path) ==
    IF Len(path) = 0 THEN ""
    ELSE IF Len(path) = 1 THEN path[1]
    ELSE path[1] \o "/" \o PathDisplay(Tail(path))

\* what a path names: nothing that File::open can open, a file whose
\* read_to_string fails, or a file holding a document
NoFile == [exists |-> FALSE, readable |-> FALSE, doc |-> Document(TRUE, FALSE, <<>>)]

UnreadableFile(doc) == [exists |-> TRUE, readable |-> FALSE, doc |-> doc]

File(doc) == [exists |-> TRUE, readable |-> TRUE, doc |-> doc]

\* what a call gives back: the value returned and the lines written to stderr
Returned(out, lines) == [out |-> out, stderr |-> lines]

\* from_path that drops the outcome of read_to_string and parses the buffer
from_path_ReadUnchecked(fs, path) ==
    IF ~fs[path].exists
    THEN Returned(Err(FromIoError("open")),
                  <<"Unable to read '" \o PathDisplay(path) \o "'">>)
    ELSE LET r == toml_from_str(fs[path].doc)
         IN  IF r.ok THEN Returned(Ok(r.val), <<>>)
             ELSE Returned(Err(FromTomlDeError(r.err)), <<>>)

\* from_path that reports every failure on stderr, not only a failed open
from_path_LogsEveryFailure(fs, path) ==
    LET line == <<"Unable to read '" \o PathDisplay(path) \o "'">>
    IN  IF ~fs[path].exists THEN Returned(Err(FromIoError("open")), line)
        ELSE IF ~fs[path].readable
        THEN Returned(Err(FromIoError("read_to_string")), line)
        ELSE LET r == toml_from_str(fs[path].doc)
             IN  IF r.ok THEN Returned(Ok(r.val), <<>>)
                 ELSE Returned(Err(FromTomlDeError(r.err)), line)

\* Environments::from_path
from_path(fs, path) ==
    IF ~fs[path].exists
    THEN Returned(Err(FromIoError("open")),
                  <<"Unable to read '" \o PathDisplay(path) \o "'">>)
    ELSE IF ~fs[path].readable
    THEN Returned(Err(FromIoError("read_to_string")), <<>>)
    ELSE LET r == toml_from_str(fs[path].doc)
         IN  IF r.ok THEN Returned(Ok(r.val), <<>>)
             ELSE Returned(Err(FromTomlDeError(r.err)), <<>>)

\* PathBuf::join with a relative path: its components follow the base's
PathJoin(base, rel) == base \o PathFrom(rel)

\* ArgMatches::value_of("env_path")
NoArg == [given |-> FALSE, value |-> ""]

Given(value) == [given |-> TRUE, value |-> value]

\* try_from that ignores the env_path flag
try_from_args_IgnoresFlag(fs, matches) == from_path(fs, PathFrom("env.toml"))

\* impl TryFrom<&ArgMatches> for Environments
try_from_args(fs, matches) ==
    LET env_path == IF matches.given
                    THEN PathJoin(PathFrom(matches.value), "env.toml")
                    ELSE PathFrom("env.toml")
    IN  from_path(fs, env_path)

\* impl std::error::Error for Error: source()
source(e) == IF e.source # NoSource THEN e.source ELSE NoSource

(***************************************************************************)
(* Lookup: std::env::var, Environments::current_from, Environments::current*)
(***************************************************************************)
\* the states of one process environment variable
Unset == [tag |-> "unset", val |-> ""]

NotUnicode == [tag |-> "not_unicode", val |-> ""]

Set(s) == [tag |-> "set", val |-> s]

\* env::var(var).unwrap_or_default(): a variable that is not set reads as ""
env_var_OrDefault(e, var) ==
    CASE e[var].tag = "set" -> Ok(e[var].val)
      [] e[var].tag = "unset" -> Ok("")
      [] e[var].tag = "not_unicode" -> Err("NotUnicode")

\* std::env::var
env_var(e, var) ==
    CASE e[var].tag = "set" -> Ok(e[var].val)
      [] e[var].tag = "unset" -> Err("NotPresent")
      [] e[var].tag = "not_unicode" -> Err("NotUnicode")

\* the first entry of the map in key order (values().next()) instead of get
get_or_else_First(m, k, var) ==
    IF DOMAIN m # {}
    THEN Ok(m[CHOOSE f \in DOMAIN m : \A g \in DOMAIN m : cmp(f, g) # "Greater"])
    ELSE Err(invalid_current_environment(var))

\* get that falls back to the first entry when the key is absent
get_or_else_Fallback(m, k, var) ==
    IF k \in DOMAIN m THEN Ok(m[k]) ELSE get_or_else_First(m, k, var)

\* BTreeMap::get(..).ok_or_else(|| Error::invalid_current_environment(var))
get_or_else(m, k, var) ==
    IF k \in DOMAIN m THEN Ok(m[k]) ELSE Err(invalid_current_environment(var))

\* current_from without the map_err: the error of try_from reaches the caller
current_from_NoMapErr(m, e, var) ==
    LET v == env_var(e, var)
    IN  IF ~v.ok THEN Err(FromVarError(v.err))
        ELSE LET environment == try_from_string(v.val)
             IN  IF ~environment.ok THEN environment
                 ELSE get_or_else(m, environment.val, var)

\* Environments::current_from
current_from(m, e, var) ==
    LET v == env_var(e, var)
    IN  IF ~v.ok THEN Err(FromVarError(v.err))
        ELSE LET environment == try_from_string(v.val)
             IN  IF ~environment.ok THEN Err(invalid_current_environment(var))
                 ELSE get_or_else(m, environment.val, var)

\* current that consults the tests' TOMLENV
current_Tomlenv(m, e) == current_from(m, e, "TOMLENV")

\* Environments::current
current(m, e) == current_from(m, e, "env")

(***************************************************************************)
(* Inputs                                                                  *)
(***************************************************************************)
\* strings handed to try_from: the accepted spellings, case variants, padded
\* variants, aliases, the empty string and the tests' "blah"
Strings == {"prod", "stage", "test", "dev", "local",
            "Prod", " prod", "production", "", "blah"}

\* names of the [envs.<name>] tables of enumerated documents
TableNames == {"prod", "stage", "test", "dev", "local", "Prod"}

\* fields of the tables of enumerated documents: with the optional key, without
\* it, and without the required name
Bodies == {RuntimeEnv("Production", "abcd-123-efg-45"),
           RuntimeEnv("Stage", Absent),
           RuntimeEnv(Absent, Absent)}

\* sequences of at most MaxTables tables, no two with the same name (TOML
\* refuses a table defined twice as a syntax error)
TableSeqs ==
    {t \in UNION {[1..n -> [name : TableNames, body : Bodies]] : n \in 0..MaxTables} :
        \A i, j \in 1..Len(t) : t[i].name = t[j].name => i = j}

\* EXPECTED_TOML_STR with the name of its i-th table replaced
Renamed(i, name) ==
    Document(TRUE, TRUE,
        [EXPECTED_TOML_STR.tables EXCEPT ![i] = Table(name, @.body)])

\* EXPECTED_TOML_STR without its i-th table
Without(i) ==
    Document(TRUE, TRUE,
        [j \in 1..(Len(EXPECTED_TOML_STR.tables) - 1) |->
            EXPECTED_TOML_STR.tables[IF j < i THEN j ELSE j + 1]])

\* EXPECTED_TOML_STR with its tables in the opposite order
Reversed ==
    Document(TRUE, TRUE,
        [j \in 1..Len(EXPECTED_TOML_STR.tables) |->
            EXPECTED_TOML_STR.tables[Len(EXPECTED_TOML_STR.tables) + 1 - j]])

Documents ==
    {Document(TRUE, TRUE, t) : t \in TableSeqs}
    \cup {Reversed}
    \cup {Document(FALSE, TRUE, t) : t \in {s \in TableSeqs : Len(s) <= 1}}
    \cup {Document(TRUE, FALSE, <<>>)}
    \cup {EXPECTED_TOML_STR}
    \cup {Renamed(i, "Prod") : i \in 1..Len(EXPECTED_TOML_STR.tables)}
    \cup {Without(i) : i \in 1..Len(EXPECTED_TOML_STR.tables)}

\* what from_reader is given: a reader whose read_to_string succeeds with a
\* document, or fails
Readers ==
    {[readable |-> TRUE, doc |-> d] : d \in Documents}
    \cup {[readable |-> FALSE, doc |-> Document(TRUE, FALSE, <<>>)]}

\* the directory the tests pass as --envpath
Dirs == {"data_local_dir"}

\* the paths a run can name: env.toml here and env.toml in a directory
Paths == {Append(PathFrom(d), "env.toml") : d \in Dirs \cup {""}}

\* the documents found in files
FileDocuments ==
    {EXPECTED_TOML_STR, Renamed(1, "Prod"), Document(FALSE, TRUE, <<>>)}

Files ==
    {NoFile, UnreadableFile(Document(FALSE, TRUE, <<>>))}
    \cup {File(d) : d \in FileDocuments}

\* what the paths name when a call is made
FileSystems == [Paths -> Files]

\* the command lines: without --envpath, and with it
Matches == {NoArg} \cup {Given(d) : d \in Dirs}

\* names of the variables consulted: "env" and the tests' TOMLENV
VarNames == {"env", "TOMLENV"}

EnvValues ==
    {Unset, NotUnicode}
    \cup {Set(s) : s \in {"prod", "stage", "test", "dev", "local", "blah"}}

(***************************************************************************)
(* State                                                                   *)
(***************************************************************************)
\* Option<Environment>::None
NoKey == "None"

\* no Environments instance has been constructed
NotLoaded == [loaded |-> FALSE, map |-> <<>>]

Loaded(m) == [loaded |-> TRUE, map |-> m]

\* the threads that hold &Environments
Threads == 1..MaxReaders

\* a thread that is not inside current_from
Idle == [pc |-> "idle"]

Init ==
    /\ key = NoKey
    /\ envs = NotLoaded
    /\ environ \in [VarNames -> EnvValues]
    /\ result = [op |-> "none"]
    /\ stderr = <<>>
    /\ threads = [t \in Threads |-> Idle]

(***************************************************************************)
(* Calls on Environment                                                    *)
(***************************************************************************)
\* Environment::try_from(s: &str)
TryFromStr(s) ==
    LET r == try_from_str(s)
    IN  /\ result' = [op |-> "try_from_str", arg |-> s, out |-> r]
        /\ key' = IF r.ok THEN r.val ELSE key
        /\ UNCHANGED <<envs, environ, stderr, threads>>

\* Environment::try_from(s: String)
TryFromString(s) ==
    LET r == try_from_string(s)
    IN  /\ result' = [op |-> "try_from_string", arg |-> s, out |-> r]
        /\ key' = IF r.ok THEN r.val ELSE key
        /\ UNCHANGED <<envs, environ, stderr, threads>>

\* Environment::deserialize on a document key: deserialize_string hands the
\* key to EnvironmentVisitor::visit_str
Deserialize(s) ==
    LET r == deserialize_key(s)
    IN  /\ result' = [op |-> "deserialize", arg |-> s, out |-> r]
        /\ key' = IF r.ok THEN r.val ELSE key
        /\ UNCHANGED <<envs, environ, stderr, threads>>

\* key.to_string()
Display ==
    /\ key # NoKey
    /\ result' = [op |-> "to_string", arg |-> key, out |-> to_string(key)]
    /\ UNCHANGED <<key, envs, environ, stderr, threads>>

\* key.cmp(&other)
Cmp(other) ==
    /\ key # NoKey
    /\ result' = [op |-> "cmp", arg |-> <<key, other>>, out |-> cmp(key, other)]
    /\ UNCHANGED <<key, envs, environ, stderr, threads>>

(***************************************************************************)
(* Calls on Environments                                                   *)
(***************************************************************************)
\* Environments::from_reader, the first call of a run: constructs the instance;
\* a failure is returned to the caller and constructs nothing
FromReader ==
    /\ ~envs.loaded
    /\ result.op = "none"
    /\ \E reader \in Readers :
         LET r == from_reader(reader)
         IN  /\ result' = [op |-> "from_reader", arg |-> reader, out |-> r]
             /\ envs' = IF r.ok THEN Loaded(r.val) ELSE NotLoaded
    /\ UNCHANGED <<key, environ, stderr, threads>>

\* Environments::from_path, the first call of a run
FromPath ==
    /\ ~envs.loaded
    /\ result.op = "none"
    /\ \E fs \in FileSystems : \E path \in Paths :
         LET r == from_path(fs, path)
         IN  /\ result' = [op |-> "from_path", arg |-> [fs |-> fs, path |-> path],
                           out |-> r.out]
             /\ envs' = IF r.out.ok THEN Loaded(r.out.val) ELSE NotLoaded
             /\ stderr' = stderr \o r.stderr
    /\ UNCHANGED <<key, environ, threads>>

\* Environments::try_from(&matches), the first call of a run
TryFromArgs ==
    /\ ~envs.loaded
    /\ result.op = "none"
    /\ \E fs \in FileSystems : \E matches \in Matches :
         LET r == try_from_args(fs, matches)
         IN  /\ result' = [op |-> "try_from_args",
                           arg |-> [fs |-> fs, matches |-> matches],
                           out |-> r.out]
             /\ envs' = IF r.out.ok THEN Loaded(r.out.val) ELSE NotLoaded
             /\ stderr' = stderr \o r.stderr
    /\ UNCHANGED <<key, environ, threads>>

\* env::set_var(var, s)
SetVar(var, s) ==
    /\ environ' = [environ EXCEPT ![var] = Set(s)]
    /\ UNCHANGED <<key, envs, result, stderr, threads>>

\* toml::to_string(&envs), as test::try_encode calls it
Encode ==
    /\ envs.loaded
    /\ result' = [op |-> "encode", arg |-> envs.map, out |-> try_encode(envs.map)]
    /\ UNCHANGED <<key, envs, environ, stderr, threads>>

\* envs.current(); prior records how the lookup before this one ended
Current ==
    /\ envs.loaded
    /\ result' = [op |-> "current", arg |-> "env", read |-> environ["env"],
                  out |-> current(envs.map, environ),
                  prior |-> IF result.op \in {"current", "current_from"}
                            THEN IF result.out.ok THEN "ok" ELSE "err"
                            ELSE "none"]
    /\ UNCHANGED <<key, envs, environ, stderr, threads>>

\* a current_from that keeps the answer of the lookup before it for the same
\* variable instead of reading the variable again
CurrentFrom_Cached(var) ==
    /\ envs.loaded
    /\ result' = [op |-> "current_from", arg |-> var, read |-> environ[var],
                  out |-> IF result.op \in {"current", "current_from"}
                             /\ result.arg = var
                          THEN result.out
                          ELSE current_from(envs.map, environ, var),
                  prior |-> IF result.op \in {"current", "current_from"}
                            THEN IF result.out.ok THEN "ok" ELSE "err"
                            ELSE "none"]
    /\ UNCHANGED <<key, envs, environ, stderr, threads>>

\* envs.current_from(var); prior records how the lookup before this one ended
CurrentFrom(var) ==
    /\ envs.loaded
    /\ result' = [op |-> "current_from", arg |-> var, read |-> environ[var],
                  out |-> current_from(envs.map, environ, var),
                  prior |-> IF result.op \in {"current", "current_from"}
                            THEN IF result.out.ok THEN "ok" ELSE "err"
                            ELSE "none"]
    /\ UNCHANGED <<key, envs, environ, stderr, threads>>

(***************************************************************************)
(* Concurrent readers: current_from(&self, var) step by step               *)
(***************************************************************************)
\* the documents the shared instance was loaded from
ConcDocuments == {EXPECTED_TOML_STR, Without(1)}

\* the values another part of the process gives the variables meanwhile
ConcStrings == {"prod", "local", "blah"}

\* an instance constructed by from_reader and shared by reference
InitConc ==
    /\ key = NoKey
    /\ envs \in {Loaded(from_reader([readable |-> TRUE, doc |-> d]).val) :
                    d \in ConcDocuments}
    /\ environ = [v \in VarNames |-> Unset]
    /\ result = [op |-> "none"]
    /\ stderr = <<>>
    /\ threads = [t \in Threads |-> Idle]

\* thread t enters current_from(var); current() enters with "env"
Call(t, var) ==
    /\ threads[t].pc = "idle"
    /\ threads' = [threads EXCEPT ![t] = [pc |-> "env_var", var |-> var]]
    /\ UNCHANGED <<key, envs, environ, result, stderr>>

\* env::var(var)?
EnvVar(t) ==
    /\ threads[t].pc = "env_var"
    /\ LET var == threads[t].var
           v == env_var(environ, var)
       IN  threads' = [threads EXCEPT ![t] =
               IF ~v.ok
               THEN [pc |-> "done", var |-> var, read |-> environ[var],
                     out |-> Err(FromVarError(v.err))]
               ELSE [pc |-> "try_from", var |-> var, read |-> environ[var]]]
    /\ UNCHANGED <<key, envs, environ, result, stderr>>

\* TryFrom::try_from(..).map_err(|_e| Error::invalid_current_environment(var))?
TryFromVar(t) ==
    /\ threads[t].pc = "try_from"
    /\ LET var == threads[t].var
           environment == try_from_string(threads[t].read.val)
       IN  threads' = [threads EXCEPT ![t] =
               IF ~environment.ok
               THEN [pc |-> "done", var |-> var, read |-> threads[t].read,
                     out |-> Err(invalid_current_environment(var))]
               ELSE [pc |-> "get", var |-> var, read |-> threads[t].read,
                     environment |-> environment.val]]
    /\ UNCHANGED <<key, envs, environ, result, stderr>>

\* a lookup through entry(environment).or_default(): a key that is absent is
\* inserted into the shared map
Get_OrInsert(t) ==
    /\ threads[t].pc = "get"
    /\ LET k == threads[t].environment
           m == [x \in DOMAIN envs.map \cup {k} |->
                    IF x \in DOMAIN envs.map THEN envs.map[x]
                    ELSE RuntimeEnv("", Absent)]
       IN  /\ envs' = Loaded(m)
           /\ threads' = [threads EXCEPT ![t] =
                  [pc |-> "done", var |-> threads[t].var,
                   read |-> threads[t].read, out |-> Ok(m[k])]]
    /\ UNCHANGED <<key, environ, result, stderr>>

\* self.envs.get(&environment).ok_or_else(..)?, and the return
Get(t) ==
    /\ threads[t].pc = "get"
    /\ threads' = [threads EXCEPT ![t] =
           [pc |-> "done", var |-> threads[t].var, read |-> threads[t].read,
            out |-> get_or_else(envs.map, threads[t].environment,
                                threads[t].var)]]
    /\ UNCHANGED <<key, envs, environ, result, stderr>>

\* the caller drops the result and is free to call again
Return(t) ==
    /\ threads[t].pc = "done"
    /\ threads' = [threads EXCEPT ![t] = Idle]
    /\ UNCHANGED <<key, envs, environ, result, stderr>>

(***************************************************************************)
(* Specifications                                                          *)
(***************************************************************************)
NextKey ==
    \/ \E s \in Strings : TryFromStr(s)
    \/ \E s \in Strings : TryFromString(s)
    \/ \E s \in Strings : Deserialize(s)
    \/ Display
    \/ \E other \in Environment : Cmp(other)

\* the Environment key type on its own
SpecKey == Init /\ [][NextKey]_vars

Next ==
    \/ FromReader
    \/ FromPath
    \/ TryFromArgs
    \/ \E var \in VarNames : \E s \in {v.val : v \in {w \in EnvValues : w.tag = "set"}} :
            SetVar(var, s)
    \/ Current
    \/ \E var \in VarNames : CurrentFrom(var)
    \/ Encode

\* one Environments<Environment, RuntimeEnv> instance and its lookups
Spec == Init /\ [][Next]_vars

NextConc ==
    \/ \E var \in VarNames : \E s \in ConcStrings : SetVar(var, s)
    \/ \E t \in Threads : \E var \in VarNames : Call(t, var)
    \/ \E t \in Threads : EnvVar(t)
    \/ \E t \in Threads : TryFromVar(t)
    \/ \E t \in Threads : Get(t)
    \/ \E t \in Threads : Return(t)

\* several threads looking up on one shared instance while the variables change
SpecConc == InitConc /\ [][NextConc]_vars

TypeOK ==
    /\ key \in Environment \cup {NoKey}
    /\ envs.loaded \in BOOLEAN
    /\ DOMAIN envs.map \subseteq Environment
    /\ environ \in [VarNames -> EnvValues]

(***************************************************************************)
(* Properties of the Environment key type, checked under SpecKey           *)
(***************************************************************************)
\* the canonical spelling the specification gives each variant
Canonical ==
    [k \in Environment |->
        CASE k = "Prod" -> "prod"
          [] k = "Stage" -> "stage"
          [] k = "Test" -> "test"
          [] k = "Dev" -> "dev"
          [] k = "Local" -> "local"]

CanonicalStrings == {Canonical[k] : k \in Environment}

\* C1: parsing the string a variant renders to returns that variant:
\* for every rendered key k, try_from(to_string(k)) = Ok(k)
C1_RoundTrip ==
    result.op = "to_string" =>
        /\ result.out = Canonical[result.arg]
        /\ try_from_str(result.out) = Ok(result.arg)

C1_Witness ==
    /\ result.op = "to_string"
    /\ result.arg = "Local"
    /\ try_from_str(result.out).ok

\* C2: every string other than the five canonical spellings is refused by
\* try_from with an Env error whose reason carries that string, and leaves the
\* caller without a new variant
C2_RejectsNonCanonical ==
    (result.op = "try_from_str" /\ result.arg \notin CanonicalStrings) =>
        /\ ~result.out.ok
        /\ result.out.err.code = "Env"
        /\ result.out.err.reason =
               "invalid runtime environment '" \o result.arg \o "'"
        /\ result.out.err.source = NoSource

C2_Witness ==
    /\ result.op = "try_from_str"
    /\ result.arg = "Prod"
    /\ ~result.out.ok

\* C3: the encoding is a bijection between the five variants and the five
\* canonical strings: distinct variants render to distinct strings, a string is
\* accepted exactly when it is canonical, and an accepted string renders back
\* to itself
C3_Bijection ==
    /\ \A a, b \in Environment : a # b => to_string(a) # to_string(b)
    /\ {to_string(k) : k \in Environment} = CanonicalStrings
    /\ result.op = "try_from_str" =>
           /\ result.out.ok <=> result.arg \in CanonicalStrings
           /\ result.out.ok =>
                  /\ result.out.val \in Environment
                  /\ to_string(result.out.val) = result.arg

C3_Witness ==
    /\ result.op = "try_from_str"
    /\ result.arg = "dev"
    /\ result.out.ok
    /\ key = "Dev"

\* the hierarchy sequence of the specification
Hierarchy == <<"Prod", "Stage", "Test", "Dev", "Local">>

\* a comes before b in the hierarchy sequence
Before(a, b) ==
    \E i, j \in 1..Len(Hierarchy) : i < j /\ Hierarchy[i] = a /\ Hierarchy[j] = b

\* C4: comparison is a strict total order following Prod < Stage < Test < Dev
\* < Local: exactly one of a<b, a=b, a>b holds, and the order is transitive
\* and antisymmetric
C4_TotalOrder ==
    /\ result.op = "cmp" =>
           LET a == result.arg[1]
               b == result.arg[2]
           IN  /\ result.out \in {"Less", "Equal", "Greater"}
               /\ result.out = "Less" <=> Before(a, b)
               /\ result.out = "Equal" <=> a = b
               /\ result.out = "Greater" <=> Before(b, a)
    /\ \A a, b \in Environment : cmp(a, b) = "Less" <=> cmp(b, a) = "Greater"
    /\ \A a, b, c \in Environment :
           (cmp(a, b) = "Less" /\ cmp(b, c) = "Less") => cmp(a, c) = "Less"

C4_Witness ==
    /\ result.op = "cmp"
    /\ result.arg = <<"Stage", "Dev">>
    /\ result.out = "Less"

(***************************************************************************)
(* Properties of the Environments lookups and load, checked under Spec     *)
(***************************************************************************)
\* the last call was a lookup
IsLookup == result.op \in {"current", "current_from"}

\* the variable the last lookup consulted held the string s
LookupRead(s) == IsLookup /\ result.read = Set(s)

\* C5: when the consulted variable holds the canonical string of a key present
\* in the loaded map, the lookup returns exactly the value stored under that
\* key
C5_ReturnsOwnEntry ==
    \A k \in Environment :
        (LookupRead(Canonical[k]) /\ k \in DOMAIN envs.map) =>
            result.out = Ok(envs.map[k])

C5_Witness ==
    /\ DOMAIN envs.map = Environment
    /\ LookupRead("dev")
    /\ result.out = Ok(RuntimeEnv("Development", Absent))

\* C6: current() returns what current_from("env") returns, whatever the other
\* variables hold
C6_CurrentIsCurrentFromEnv ==
    result.op = "current" =>
        \A e \in [VarNames -> EnvValues] :
            e["env"] = result.read =>
                result.out = current_from(envs.map, e, "env")

C6_Witness ==
    /\ result.op = "current"
    /\ result.out.ok
    /\ environ["env"] = result.read
    /\ environ["TOMLENV"] \notin {result.read, Unset, NotUnicode}

\* C7 as stated: with the variable not set, the lookup fails with a kind other
\* than the Env kind reported for an unrecognized or absent key
C7_UnsetKindDistinct ==
    (IsLookup /\ result.read = Unset) =>
        /\ ~result.out.ok
        /\ result.out.err.code # invalid_current_environment(result.arg).code

\* C7 as amended: with the variable not set, the lookup fails with the Env
\* code, the code of the unrecognized-key error too, and is told apart from it
\* by its reason and by carrying the VarError as its source
C7_UnsetIsEnvWithVarSource ==
    (IsLookup /\ result.read = Unset) =>
        /\ ~result.out.ok
        /\ result.out.err.code = "Env"
        /\ result.out.err.reason = "There was an error processing your enviroment"
        /\ result.out.err.source = SomeSource("Var", "NotPresent")
        /\ result.out.err # invalid_current_environment(result.arg)

C7_Witness ==
    /\ result.op = "current_from"
    /\ result.arg = "TOMLENV"
    /\ result.read = Unset
    /\ ~result.out.ok

\* C8: when the consulted variable holds a string the key type does not
\* recognise, the lookup fails with the Env code (not Parse, not Io) and the
\* error names the variable that was consulted
C8_UnrecognisedValue ==
    (IsLookup /\ result.read.tag = "set"
              /\ result.read.val \notin CanonicalStrings) =>
        /\ ~result.out.ok
        /\ result.out.err.code = "Env"
        /\ result.out.err.code \notin {"Parse", "Io"}
        /\ result.out.err.reason =
               "invalid current environment '" \o result.arg \o "'"

C8_Witness ==
    /\ result.op = "current_from"
    /\ result.arg = "TOMLENV"
    /\ result.read = Set("blah")
    /\ ~result.out.ok

\* C9: when the consulted variable holds the canonical string of a key absent
\* from the loaded map, the lookup fails with the Env code naming the
\* variable, the very error an unparseable value gives
C9_AbsentKey ==
    \A k \in Environment :
        (LookupRead(Canonical[k]) /\ k \notin DOMAIN envs.map) =>
            /\ ~result.out.ok
            /\ result.out.err.code = "Env"
            /\ result.out.err.reason =
                   "invalid current environment '" \o result.arg \o "'"
            /\ result.out =
                   current_from(envs.map,
                                [environ EXCEPT ![result.arg] = Set("blah")],
                                result.arg)

C9_Witness ==
    /\ LookupRead("test")
    /\ DOMAIN envs.map = Environment \ {"Test"}
    /\ ~result.out.ok

\* the names of the tables of the document the last from_reader read
TableNamesOf(doc) == {doc.tables[i].name : i \in 1..Len(doc.tables)}

\* every table of the document gives the fields RuntimeEnv requires
ValuesFit(doc) == \A i \in 1..Len(doc.tables) : doc.tables[i].body.name # Absent

\* C10: a well-formed document whose table names are all canonical and whose
\* values fit loads into a map with exactly those keys; a document with any
\* table name that is not canonical fails as a whole with the Parse code and
\* constructs no map
C10_LoadAllOrNothing ==
    (result.op = "from_reader" /\ result.arg.readable) =>
        LET doc == result.arg.doc
        IN  /\ ( /\ doc.syntax_ok
                 /\ doc.wrapper
                 /\ TableNamesOf(doc) \subseteq CanonicalStrings
                 /\ ValuesFit(doc) ) =>
                    /\ result.out.ok
                    /\ envs = Loaded(result.out.val)
                    /\ DOMAIN envs.map =
                           {k \in Environment : Canonical[k] \in TableNamesOf(doc)}
            /\ ~(TableNamesOf(doc) \subseteq CanonicalStrings) =>
                    /\ ~result.out.ok
                    /\ result.out.err.code = "Parse"
                    /\ envs = NotLoaded

C10_Witness ==
    /\ result.op = "from_reader"
    /\ result.arg.readable
    /\ result.arg.doc = Renamed(3, "Prod")
    /\ ~result.out.ok
    /\ ~envs.loaded

\* the last call was a from_reader whose read_to_string gave a document
ReadDocument == result.op = "from_reader" /\ result.arg.readable

\* C11: loading a syntactically invalid document fails with the Parse code,
\* not Io and not Env, and constructs no map
C11_InvalidSyntaxIsParse ==
    (ReadDocument /\ ~result.arg.doc.syntax_ok) =>
        /\ ~result.out.ok
        /\ result.out.err.code = "Parse"
        /\ result.out.err.code \notin {"Io", "Env"}
        /\ envs = NotLoaded

C11_Witness ==
    /\ ReadDocument
    /\ ~result.arg.doc.syntax_ok
    /\ Len(result.arg.doc.tables) = 1
    /\ ~result.out.ok
    /\ ~envs.loaded

\* what the path of the last from_path named
PathFile == result.arg.fs[result.arg.path]

\* C12: from_path on a path that cannot be opened or read fails with the Io
\* code, the error's source() is the io::Error, and no map is constructed (the
\* content is never parsed)
C12_UnreadablePathIsIo ==
    (result.op = "from_path" /\ (~PathFile.exists \/ ~PathFile.readable)) =>
        /\ ~result.out.ok
        /\ result.out.err.code = "Io"
        /\ source(result.out.err) =
               SomeSource("Io", IF PathFile.exists THEN "read_to_string" ELSE "open")
        /\ envs = NotLoaded

C12_Witness ==
    /\ result.op = "from_path"
    /\ PathFile.exists
    /\ ~PathFile.readable
    /\ result.out.err.code = "Io"
    /\ ~envs.loaded

\* the key whose canonical string names the table
KeyOf(name) == CHOOSE k \in Environment : Canonical[k] = name

\* the orders in which n tables can appear in a document
Orders(n) == {p \in [1..n -> 1..n] : \A i, j \in 1..n : p[i] = p[j] => i = j}

\* C13: serialization emits one table per entry in the order of the hierarchy
\* (prod, stage, test, dev, local), whatever the order of the tables in the
\* document the map was loaded from: the same entries give the same text
C13_SerializesInKeyOrder ==
    result.op = "encode" =>
        /\ result.out.ok
        /\ LET tables == result.out.val.tables
               n == Len(tables)
           IN  /\ {tables[i].name : i \in 1..n} =
                      {Canonical[k] : k \in DOMAIN envs.map}
               /\ n = Cardinality(DOMAIN envs.map)
               /\ \A i, j \in 1..n :
                      i < j => Before(KeyOf(tables[i].name), KeyOf(tables[j].name))
               /\ \A p \in Orders(n) :
                      LET r == toml_from_str(
                                   Document(TRUE, TRUE, [i \in 1..n |-> tables[p[i]]]))
                      IN  r.ok /\ try_encode(r.val) = result.out
        /\ DOMAIN envs.map = Environment =>
               [i \in 1..5 |-> result.out.val.tables[i].name] =
                   <<"prod", "stage", "test", "dev", "local">>

C13_Witness ==
    /\ result.op = "encode"
    /\ DOMAIN envs.map = Environment
    /\ result.out = Ok(EXPECTED_TOML_STR)

\* C14: loading what a loaded map serializes to gives a map with the same keys
\* and the same value under each key, and serializing that map gives the same
\* text again
C14_RoundTrip ==
    result.op = "encode" =>
        /\ result.out.ok
        /\ LET again == toml_from_str(result.out.val)
           IN  /\ again.ok
               /\ DOMAIN again.val = DOMAIN envs.map
               /\ \A k \in DOMAIN envs.map : again.val[k] = envs.map[k]
               /\ try_encode(again.val) = result.out

C14_Witness ==
    /\ result.op = "encode"
    /\ DOMAIN envs.map = {"Prod", "Dev"}
    /\ envs.map["Prod"].key # Absent
    /\ envs.map["Dev"].key = Absent
    /\ toml_from_str(result.out.val) = Ok(envs.map)

\* the file the specification has construction from the command line load:
\* env.toml in the directory the flag gives, env.toml here without the flag
ResolvedPath(matches) ==
    IF matches.given THEN <<matches.value, "env.toml">> ELSE <<"env.toml">>

\* C16: construction from the command line loads <flag-value>/env.toml when
\* env_path is given and env.toml of the default directory when it is not, and
\* gives what from_path gives for that path
C16_ArgsResolveEnvToml ==
    result.op = "try_from_args" =>
        LET r == from_path(result.arg.fs, ResolvedPath(result.arg.matches))
        IN  /\ result.out = r.out
            /\ stderr = r.stderr
            /\ envs = IF r.out.ok THEN Loaded(r.out.val) ELSE NotLoaded

C16_Witness ==
    /\ result.op = "try_from_args"
    /\ result.arg.matches = Given("data_local_dir")
    /\ result.arg.fs[<<"data_local_dir", "env.toml">>] = File(EXPECTED_TOML_STR)
    /\ result.arg.fs[<<"env.toml">>] = NoFile
    /\ envs = Loaded(toml_from_str(EXPECTED_TOML_STR).val)

\* the last call was one of the public operations of Environments and failed
PublicCallFailed ==
    /\ result.op \in {"from_path", "from_reader", "try_from_args",
                      "current", "current_from"}
    /\ ~result.out.ok

\* the path the last from_path or construction from the command line opened
OpenedPath ==
    IF result.op = "from_path" THEN result.arg.path
    ELSE ResolvedPath(result.arg.matches)

\* the last call was a load from a path that File::open could not open
OpenFailed ==
    /\ result.op \in {"from_path", "try_from_args"}
    /\ ~result.arg.fs[OpenedPath].exists

\* C15 as stated: every failure of a public operation comes back as one error
\* value and the library has written nothing
C15_FailuresAreSilent ==
    PublicCallFailed =>
        /\ result.out.err.code \in ErrCode
        /\ stderr = <<>>

\* C15 as amended: every failure of a public operation comes back as one error
\* value, without panic or retry; the library writes nothing, except that a
\* load from a path that cannot be opened writes the one line
\* "Unable to read '<path>'" to stderr
C15_FailuresReturnedOnce ==
    /\ PublicCallFailed =>
           /\ result.out.err.code \in {"Env", "Io", "Parse"}
           /\ result.out.err.description =
                  ErrCodeStr(result.out.err.code) \o ": " \o result.out.err.reason
    /\ stderr = IF OpenFailed
                THEN <<"Unable to read '" \o PathDisplay(OpenedPath) \o "'">>
                ELSE <<>>

C15_Witness ==
    /\ result.op = "try_from_args"
    /\ result.arg.matches = Given("data_local_dir")
    /\ ~result.out.ok
    /\ stderr = <<"Unable to read 'data_local_dir/env.toml'">>

\* the last call was a load (from a reader, a path or the command line) that
\* got a document and could not deserialize it
LoadedDocument ==
    CASE result.op = "from_reader" -> result.arg.doc
      [] result.op \in {"from_path", "try_from_args"} -> result.arg.fs[OpenedPath].doc

\* the lower-level failure behind the last failed load: the source it must carry
LoadCause ==
    IF result.op = "from_reader"
    THEN IF ~result.arg.readable THEN SomeSource("Io", "read_to_string")
         ELSE SomeSource("TomlDe", toml_from_str(LoadedDocument).err)
    ELSE IF ~result.arg.fs[OpenedPath].exists THEN SomeSource("Io", "open")
    ELSE IF ~result.arg.fs[OpenedPath].readable THEN SomeSource("Io", "read_to_string")
    ELSE SomeSource("TomlDe", toml_from_str(LoadedDocument).err)

\* C17: every error keeps its cause: an error converted from an I/O, TOML
\* decode, TOML encode or variable-read failure has that failure as source();
\* the error of a refused key string carries the string; the error of a failed
\* lookup carries the name of the variable
C17_ErrorsKeepCause ==
    /\ (result.op \in {"from_reader", "from_path", "try_from_args"}
            /\ ~result.out.ok) =>
           source(result.out.err) = LoadCause
    /\ (IsLookup /\ ~result.out.ok) =>
           IF result.read.tag = "set"
           THEN /\ result.out.err.reason =
                       "invalid current environment '" \o result.arg \o "'"
                /\ result.out.err.description =
                       "env: invalid current environment '" \o result.arg \o "'"
           ELSE source(result.out.err) =
                    SomeSource("Var", IF result.read = Unset THEN "NotPresent"
                                      ELSE "NotUnicode")
    /\ \A inner \in {"ValueAfterTable", "KeyNotString"} :
           source(FromTomlSerError(inner)) = SomeSource("TomlSer", inner)
    /\ \A s \in Strings \ CanonicalStrings :
           /\ try_from_str(s).err.reason = "invalid runtime environment '" \o s \o "'"
           /\ try_from_string(s).err.reason = "invalid runtime environment '" \o s \o "'"

C17_Witness ==
    /\ result.op = "from_reader"
    /\ result.arg.readable
    /\ result.arg.doc = Renamed(5, "Prod")
    /\ source(result.out.err) =
           SomeSource("TomlDe", "custom: env: invalid runtime environment 'Prod'")

\* the outcome the value v of the variable named var determines on the map m
Resolved(m, v, var) ==
    IF v.tag # "set"
    THEN Err(ErrorNew("Env",
                      "There was an error processing your enviroment",
                      SomeSource("Var", IF v = Unset THEN "NotPresent"
                                        ELSE "NotUnicode")))
    ELSE IF v.val \in CanonicalStrings /\ KeyOf(v.val) \in DOMAIN m
    THEN Ok(m[KeyOf(v.val)])
    ELSE Err(ErrorNew("Env",
                      "invalid current environment '" \o var \o "'",
                      NoSource))

\* C18: resolution is not cached: whatever lookups came before and however
\* they ended, a current()/current_from call returns the outcome that the
\* value of the variable at the moment of the call determines on the map
C18_NotCached ==
    IsLookup => result.out = Resolved(envs.map, result.read, result.arg)

\* a lookup fails on the variable's new value right after a lookup on the
\* same map that succeeded
C18_Witness ==
    /\ IsLookup
    /\ result.prior = "ok"
    /\ result.read = Unset
    /\ ~result.out.ok
    /\ "Prod" \in DOMAIN envs.map

\* and a lookup succeeds right after one that failed
C18_WitnessRecovers ==
    /\ IsLookup
    /\ result.prior = "err"
    /\ result.out.ok

\* C19: no lookup mutates the map, and concurrent readers do not disturb one
\* another: every step of every reader leaves envs as it was, and a reader that
\* finishes holds the result current_from gives on that map when it runs alone
\* with the variable at the value the reader read
C19_ReadersNeverConflict ==
    [][/\ envs' = envs
       /\ \A t \in Threads :
              threads'[t].pc = "done" =>
                  threads'[t].out =
                      current_from(envs.map,
                                   [v \in VarNames |-> threads'[t].read],
                                   threads'[t].var)]_vars

\* two readers of the same variable have finished on the same map, one with an
\* entry and one with an error, and the variable has changed again since
C19_Witness ==
    /\ threads[1].pc = "done"
    /\ threads[2].pc = "done"
    /\ threads[1].var = threads[2].var
    /\ threads[1].out.ok
    /\ ~threads[2].out.ok
    /\ environ[threads[1].var] \notin {threads[1].read, threads[2].read}

\* the tables of the document that omit the required field name of RuntimeEnv
OmitRequired(doc) ==
    {i \in 1..Len(doc.tables) : doc.tables[i].body.name = Absent}

\* C20: load validates the shape of the document as a whole and per entry: a
\* well-formed document without the envs wrapper, or with any one table that
\* omits the required field, fails with the Parse code and constructs no map;
\* with canonical table names and every required field present it loads, each
\* key maps to the fields of its own table, and an optional field that a
\* table omits is absent in that entry only
C20_ShapeValidated ==
    (ReadDocument /\ result.arg.doc.syntax_ok) =>
        LET doc == result.arg.doc
        IN  /\ (~doc.wrapper \/ OmitRequired(doc) # {}) =>
                    /\ ~result.out.ok
                    /\ result.out.err.code = "Parse"
                    /\ envs = NotLoaded
            /\ ( /\ doc.wrapper
                 /\ OmitRequired(doc) = {}
                 /\ TableNamesOf(doc) \subseteq CanonicalStrings ) =>
                    /\ result.out.ok
                    /\ envs = Loaded(result.out.val)
                    /\ \A i \in 1..Len(doc.tables) :
                           LET entry == envs.map[KeyOf(doc.tables[i].name)]
                           IN  /\ entry.name = doc.tables[i].body.name
                               /\ entry.key = doc.tables[i].body.key

\* the documented example is loaded: prod carries the optional key and the
\* other four entries do not
C20_Witness ==
    /\ ReadDocument
    /\ result.arg.doc = EXPECTED_TOML_STR
    /\ result.out.ok
    /\ envs.map["Prod"].key = "abcd-123-efg-45"
    /\ \A k \in Environment \ {"Prod"} : envs.map[k].key = Absent
    /\ envs.map["Dev"].name = "Development"

\* a document whose second table omits the required field is refused whole
C20_WitnessRefused ==
    /\ ReadDocument
    /\ result.arg.doc.syntax_ok
    /\ result.arg.doc.wrapper
    /\ OmitRequired(result.arg.doc) = {2}
    /\ ~result.out.ok
    /\ envs = NotLoaded

\* the last call parsed a string into a key, through either TryFrom or serde
IsParse == result.op \in {"try_from_str", "try_from_string", "deserialize"}

\* C21: the parse entry points agree on every input: TryFrom<&str> and
\* TryFrom<String> return the same variant for a string either accepts and
\* the same error, of the Env code and naming the string, for a string either
\* refuses; the deserializer accepts exactly the strings they accept, with
\* the same variant
C21_ParseEntryPointsAgree ==
    IsParse =>
        LET s == result.arg
            a == try_from_str(s)
            b == try_from_string(s)
            d == deserialize_key(s)
        IN  /\ result.op = "try_from_str" => result.out = b
            /\ result.op = "try_from_string" => result.out = a
            /\ result.op = "deserialize" =>
                   /\ result.out.ok = a.ok
                   /\ result.out.ok = b.ok
                   /\ result.out.ok => result.out.val = a.val
            /\ a = b
            /\ d.ok = a.ok
            /\ a.ok => d.val = a.val
            /\ ~a.ok =>
                   /\ a.err.code = "Env"
                   /\ a.err.reason = "invalid runtime environment '" \o s \o "'"
                   /\ a.err.source = NoSource

\* the deserializer has refused the capitalised key that both TryFroms refuse,
\* after a key was parsed successfully
C21_Witness ==
    /\ result.op = "deserialize"
    /\ result.arg = "Prod"
    /\ ~result.out.ok
    /\ ~try_from_str("Prod").ok
    /\ key # NoKey

====
